---- MODULE Spec2Model ----
(***************************************************************************)
(* A model of the document generator of script.py: the criteria processor, *)
(* the replacement-map builder, the per-paragraph substitution loop and    *)
(* the row driver with its worker pool.                                    *)
(*                                                                         *)
(* Text.  A Python str is a sequence of letters.  The letters of the model *)
(* are the punctuation the code treats specially ("[", "]", ",", "-", the  *)
(* en dash, the blank) and solid blocks of other characters ("Learner      *)
(* Name", "Ann", "A"), each of which stands for a run of characters that   *)
(* holds no bracket, comma, dash or leading/trailing blank.  str.strip,    *)
(* str.split, str.replace and the `in` test are modelled on these          *)
(* sequences as Python computes them on characters.                        *)
(***************************************************************************)
EXTENDS Integers, Sequences, FiniteSets, TLC

(***************************************************************************)
(* Bounds of the model.                                                    *)
(***************************************************************************)
MaxTargetedLen == 3
MaxAchievedLen == 2
MaxCriteriaArg == 2
MaxRows == 2
MaxWorkers == 2
MaxRuns == 2
MaxEntries == 2

(***************************************************************************)
(* Python values and str operations.                                       *)
(***************************************************************************)
\* None, as csv.DictReader leaves it for the missing fields of a short record.
None == <<"<None>">>

\* The empty str.
EmptyStr == <<>>

\* The characters str.strip() removes.
Whitespace == {" "}

RECURSIVE lstrip_ws(_)
lstrip_ws(s) ==
    IF s # <<>> /\ Head(s) \in Whitespace THEN lstrip_ws(Tail(s)) ELSE s

RECURSIVE rstrip_ws(_)
rstrip_ws(s) ==
    IF s # <<>> /\ s[Len(s)] \in Whitespace
    THEN rstrip_ws(SubSeq(s, 1, Len(s) - 1))
    ELSE s

\* str.strip()
strip(s) == rstrip_ws(lstrip_ws(s))

RECURSIVE lstrip_chars(_, _)
lstrip_chars(s, chars) ==
    IF s # <<>> /\ Head(s) \in chars THEN lstrip_chars(Tail(s), chars) ELSE s

RECURSIVE rstrip_chars(_, _)
rstrip_chars(s, chars) ==
    IF s # <<>> /\ s[Len(s)] \in chars
    THEN rstrip_chars(SubSeq(s, 1, Len(s) - 1), chars)
    ELSE s

\* s.startswith(k) at offset i (1-based): k occurs in s at position i.
occurs_at(s, k, i) ==
    /\ i >= 1
    /\ i + Len(k) - 1 <= Len(s)
    /\ \A j \in 1..Len(k) : s[i + j - 1] = k[j]

\* k in s
str_in(k, s) == \E i \in 1..(Len(s) + 1) : occurs_at(s, k, i)

\* s.replace(k, v) for a non-empty k: occurrences are found left to right and do
\* not overlap; the scan resumes after each occurrence in the ORIGINAL text.
RECURSIVE replace_from(_, _, _, _)
replace_from(s, k, v, i) ==
    IF i > Len(s) THEN <<>>
    ELSE IF occurs_at(s, k, i) THEN v \o replace_from(s, k, v, i + Len(k))
    ELSE <<s[i]>> \o replace_from(s, k, v, i + 1)

\* s.replace('', v): v is inserted before every character and at the end.
RECURSIVE replace_empty(_, _, _)
replace_empty(s, v, i) ==
    IF i > Len(s) THEN v ELSE v \o <<s[i]>> \o replace_empty(s, v, i + 1)

\* str.replace(old, new)
str_replace(s, k, v) ==
    IF k = <<>> THEN replace_empty(s, v, 1) ELSE replace_from(s, k, v, 1)

\* s.split(sep) for a one-character sep: every piece, the empty ones included
\* (''.split(',') is ['']).
RECURSIVE split_from(_, _, _, _)
split_from(s, sep, i, piece) ==
    IF i > Len(s) THEN <<piece>>
    ELSE IF s[i] = sep THEN <<piece>> \o split_from(s, sep, i + 1, <<>>)
    ELSE split_from(s, sep, i + 1, Append(piece, s[i]))

split(s, sep) == split_from(s, sep, 1, <<>>)

\* lst[:n], Python's slice: a negative n counts from the end.
slice_to(lst, n) ==
    IF n >= 0
    THEN SubSeq(lst, 1, IF n < Len(lst) THEN n ELSE Len(lst))
    ELSE SubSeq(lst, 1, IF Len(lst) + n > 0 THEN Len(lst) + n ELSE 0)

\* [x] * n: empty for n <= 0.
repeat(x, n) == [i \in 1..(IF n > 0 THEN n ELSE 0) |-> x]

\* ''.join(texts), and the concatenation of a list of lists.
RECURSIVE join(_)
join(texts) == IF texts = <<>> THEN <<>> ELSE Head(texts) \o join(Tail(texts))

\* x in lst, by equality of the elements.
list_in(x, lst) == \E i \in 1..Len(lst) : lst[i] = x

(***************************************************************************)
(* process_criteria                                                        *)
(***************************************************************************)
\* [c.strip() for c in s.split(',') if c.strip()]
RECURSIVE strip_nonempty(_)
strip_nonempty(pieces) ==
    IF pieces = <<>> THEN <<>>
    ELSE IF strip(Head(pieces)) # <<>>
         THEN <<strip(Head(pieces))>> \o strip_nonempty(Tail(pieces))
         ELSE strip_nonempty(Tail(pieces))

split_clean(s) == strip_nonempty(split(s, ","))

\* 'Y' if t in achieved_list else 'N'
yn_substring(t, achieved_list) ==
    IF \E i \in 1..Len(achieved_list) : str_in(t, achieved_list[i])
    THEN <<"Y">> ELSE <<"N">>

yn(t, achieved_list) ==
    IF list_in(t, achieved_list) THEN <<"Y">> ELSE <<"N">>

\* ['Y' if t in achieved_list else 'N' for t in targeted_list]
achieved_yn_of(targeted_list, achieved_list) ==
    [i \in 1..Len(targeted_list) |-> yn(targeted_list[i], achieved_list)]

\* lst.extend([''] * (max_criteria - len(lst)))
pad_nothing(lst, max_criteria) == lst

pad(lst, max_criteria) == lst \o repeat(EmptyStr, max_criteria - Len(lst))

\* The pair process_criteria returns.
process_criteria(targeted, achieved, max_criteria) ==
    LET targeted_list == split_clean(targeted)
        achieved_list == split_clean(achieved)
        achieved_yn == achieved_yn_of(targeted_list, achieved_list)
    IN  << slice_to(pad(targeted_list, max_criteria), max_criteria),
           slice_to(pad(achieved_yn, max_criteria), max_criteria) >>

(***************************************************************************)
(* The placeholder catalog                                                 *)
(***************************************************************************)
\* The en dash, U+2013.
EnDash == "<en dash>"

DECLARED_PLACEHOLDERS ==
    << <<"[", "Programme Title", "]">>,
       <<"[", "Learner Registration Number", "]">>,
       <<"[", "Learner Name", "]">>,
       <<"[", "Assignment Title", "]">>,
       <<"[", "Assessor Name", "]">>,
       <<"[", "Unit/Component Number and Title", "]">>,
       <<"[", "Targeted Learning Aims/Assessment Criteria (Initial)", "]">>,
       <<"[", "First Submission", " ", "-", " ", "Deadline", "]">>,
       <<"[", "First Submission", " ", "-", " ", "Date Submitted", "]">>,
       <<"[", "Extension Approved (Y/N)", "]">>,
       <<"[", "Initial", " ", "-", " ", "General Comments", "]">>,
       <<"[", "Initial", " ", "-", " ", "Learner Signature (Name or File Path)", "]">>,
       <<"[", "Initial", " ", "-", " ", "Learner Declaration Date", "]">>,
       <<"[", "Initial", " ", "-", " ", "Assessor Signature (Name or File Path)", "]">>,
       <<"[", "Initial", " ", "-", " ", "Assessor Declaration Date", "]">>,
       <<"[", "Initial", " ", "-", " ", "Date of Feedback to Learner", "]">>,
       <<"[", "Resubmission", " ", "-", " ", "Authorised by Lead Internal Verifier (Name)", "]">>,
       <<"[", "Resubmission", " ", "-", " ", "Authorisation Date", "]">>,
       <<"[", "Resubmission", " ", "-", " ", "Deadline", "]">>,
       <<"[", "Resubmission", " ", "-", " ", "Date Submitted", "]">>,
       <<"[", "Resubmission", " ", "-", " ", "General Comments", "]">>,
       <<"[", "Resubmission", " ", "-", " ", "Learner Signature (Name or File Path)", "]">>,
       <<"[", "Resubmission", " ", "-", " ", "Learner Declaration Date", "]">>,
       <<"[", "Resubmission", " ", "-", " ", "Assessor Signature (Name or File Path)", "]">>,
       <<"[", "Resubmission", " ", "-", " ", "Assessor Declaration Date", "]">>,
       <<"[", "Resubmission", " ", "-", " ", "Date of Feedback to Learner", "]">>,
       <<"[", "Retake", " ", "-", " ", "Deadline", "]">>,
       <<"[", "Retake", " ", "-", " ", "Date Submitted", "]">>,
       <<"[", "Retake", " ", "-", " ", "General Comments", "]">>,
       <<"[", "Retake", " ", "-", " ", "Learner Signature (Name or File Path)", "]">>,
       <<"[", "Retake", " ", "-", " ", "Learner Declaration Date", "]">>,
       <<"[", "Retake", " ", "-", " ", "Assessor Signature (Name or File Path)", "]">>,
       <<"[", "Retake", " ", "-", " ", "Assessor Declaration Date", "]">>,
       <<"[", "Retake", " ", "-", " ", "Date of Feedback to Learner", "]">> >>

\* Append x unless the list holds it already (set.add, in the order of the adds).
add_once(lst, x) == IF list_in(x, lst) THEN lst ELSE Append(lst, x)

\* The variants of generate_placeholder_variants, listed in the order the code
\* adds them to its set.
variants_added(placeholder) ==
    LET raw == placeholder
        v1 == <<raw>>
        v2 == IF raw # <<>> /\ Head(raw) = "[" /\ raw[Len(raw)] # "]"
              THEN add_once(v1, raw \o <<"]">>) ELSE v1
        v3 == IF str_in(<<EnDash>>, raw)
              THEN add_once(v2, str_replace(raw, <<EnDash>>, <<"-">>)) ELSE v2
        v4 == IF str_in(<<"-">>, raw)
              THEN add_once(v3, str_replace(raw, <<"-">>, <<EnDash>>)) ELSE v3
    IN  v4

\* The set generate_placeholder_variants returns.
generate_placeholder_variants(placeholder) ==
    { variants_added(placeholder)[i] : i \in 1..Len(variants_added(placeholder)) }

RECURSIVE reverse(_)
reverse(lst) ==
    IF lst = <<>> THEN <<>> ELSE Append(reverse(Tail(lst)), Head(lst))

\* `for variant in generate_placeholder_variants(placeholder)`: a Python set of
\* str is iterated in an order the hash seed of the process decides; the model
\* takes the order of the adds or its reverse.
variants_iterated(placeholder, reversed) ==
    IF reversed THEN reverse(variants_added(placeholder))
    ELSE variants_added(placeholder)

(***************************************************************************)
(* Rows and the replacement map                                            *)
(***************************************************************************)
\* A row is a function from column names to values (str, or None); a column the
\* table does not have is outside its domain.
\* row.get(column, default)
row_get(row, column, default) ==
    IF column \in DOMAIN row THEN row[column] ELSE default

\* row.get(column): None when the column is absent.
row_get_none(row, column) == row_get(row, column, None)

\* x or ''
or_empty(x) == IF x = None \/ x = EmptyStr THEN EmptyStr ELSE x

\* A dict kept as the list of its (key, value) items in insertion order;
\* d[k] = v keeps the place of a key the dict holds already.
dict_has(d, k) == \E i \in 1..Len(d) : d[i][1] = k

dict_index(d, k) == CHOOSE i \in 1..Len(d) : d[i][1] = k

dict_set(d, k, v) ==
    IF dict_has(d, k)
    THEN SubSeq(d, 1, dict_index(d, k) - 1) \o << <<k, v>> >>
         \o SubSeq(d, dict_index(d, k) + 1, Len(d))
    ELSE Append(d, <<k, v>>)

\* The dict after the assignments d[k] = v of the list, from the i-th on.
RECURSIVE dict_assign(_, _, _)
dict_assign(d, assignments, i) ==
    IF i > Len(assignments) THEN d
    ELSE IF dict_has(d, assignments[i][1])
    THEN dict_assign(dict_set(d, assignments[i][1], assignments[i][2]),
                     assignments, i + 1)
    ELSE dict_assign(Append(d, assignments[i]), assignments, i + 1)

InitialTargetedColumn == <<"Initial", " ", "-", " ", "Targeted Criteria">>
InitialAchievedColumn == <<"Initial", " ", "-", " ", "Criteria Achieved">>
ResubTargetedColumn == <<"Resubmission", " ", "-", " ", "Targeted Criteria">>
ResubAchievedColumn == <<"Resubmission", " ", "-", " ", "Criteria Achieved">>
CriteriaColumns ==
    { InitialTargetedColumn, InitialAchievedColumn,
      ResubTargetedColumn, ResubAchievedColumn }

InitialMaxCriteria == 3
ResubMaxCriteria == 5

\* str(i) for the digits of the criteria tokens.
Digit == <<"1", "2", "3", "4", "5">>

\* f'[{tag}{i}]'
criteria_token(tag, i) == <<"[", tag, Digit[i], "]">>

\* row.get(column, '').strip() raises AttributeError when the value is None:
\* the default of dict.get stands in for an absent key only.
criteria_read_raises(row) ==
    \E c \in CriteriaColumns : row_get(row, c, EmptyStr) = None

\* row.get(column, '').strip(), when it does not raise.
criteria_field(row, column) == strip(row_get(row, column, EmptyStr))

\* for i, (target, achieved) in enumerate(zip(lst, yn), 1): the two
\* assignments of every turn, in order.
criteria_assignments(ttag, atag, lst, ynl) ==
    join([i \in 1..(IF Len(lst) < Len(ynl) THEN Len(lst) ELSE Len(ynl)) |->
            << <<criteria_token(ttag, i), lst[i]>>,
               <<criteria_token(atag, i), ynl[i]>> >>])

\* placeholder.strip().lstrip('[').rstrip(']')
column_name(placeholder) ==
    rstrip_chars(lstrip_chars(strip(placeholder), {"["}), {"]"})

\* (row.get(column_name) or '').strip()
declared_value(row, placeholder) ==
    strip(or_empty(row_get_none(row, column_name(placeholder))))

\* for variant in generate_placeholder_variants(placeholder):
\*     replacement_map[variant] = value
variant_assignments(row, placeholder, reversed) ==
    [j \in 1..Len(variants_iterated(placeholder, reversed)) |->
        <<variants_iterated(placeholder, reversed)[j],
          declared_value(row, placeholder)>>]

\* for placeholder in DECLARED_PLACEHOLDERS: the assignments, in order.
declared_assignments(row, reversed) ==
    join([i \in 1..Len(DECLARED_PLACEHOLDERS) |->
            variant_assignments(row, DECLARED_PLACEHOLDERS[i], reversed)])

\* The replacement_map replace_all_placeholders builds, for a row whose criteria
\* columns can be read.
replacement_map(row, reversed) ==
    LET initial == process_criteria(criteria_field(row, InitialTargetedColumn),
                                    criteria_field(row, InitialAchievedColumn),
                                    InitialMaxCriteria)
        resub == process_criteria(criteria_field(row, ResubTargetedColumn),
                                  criteria_field(row, ResubAchievedColumn),
                                  ResubMaxCriteria)
    IN  dict_assign(<<>>,
                    criteria_assignments("ITC", "ICA", initial[1], initial[2])
                    \o criteria_assignments("RTC", "RCA", resub[1], resub[2])
                    \o declared_assignments(row, reversed),
                    1)

(***************************************************************************)
(* Paragraphs and documents                                                *)
(***************************************************************************)
\* A paragraph is the list of the texts of its runs.  A document holds the
\* paragraphs of the cells of its tables, in the order replace_placeholders
\* visits them, and the paragraphs outside tables, which it never visits.

\* One turn of the loop over replacements.items(): the text and the flag
\* after the entry (placeholder, replacement).
replace_entry(full_text, modified, placeholder, replacement) ==
    IF str_in(placeholder, full_text)
    THEN <<str_replace(full_text, placeholder, replacement), TRUE>>
    ELSE <<full_text, modified>>

\* The loop over replacements.items() from entry i on.
RECURSIVE replace_loop(_, _, _, _)
replace_loop(full_text, modified, replacements, i) ==
    IF i > Len(replacements) THEN <<full_text, modified>>
    ELSE IF str_in(replacements[i][1], full_text)
    THEN replace_loop(str_replace(full_text, replacements[i][1], replacements[i][2]),
                      TRUE, replacements, i + 1)
    ELSE replace_loop(full_text, modified, replacements, i + 1)

\* As write_back, without the loop that clears the runs.
write_back_keep_runs(runs, full_text, modified) ==
    IF ~modified THEN runs
    ELSE IF runs # <<>>
         THEN [i \in 1..Len(runs) |-> IF i = 1 THEN full_text ELSE runs[i]]
         ELSE <<full_text>>

\* The runs after `if modified:`: every run cleared, the first one given the
\* whole text, a run added when there was none.
write_back(runs, full_text, modified) ==
    IF ~modified THEN runs
    ELSE IF runs # <<>>
         THEN [i \in 1..Len(runs) |-> IF i = 1 THEN full_text ELSE EmptyStr]
         ELSE <<full_text>>

\* The runs of a paragraph after replace_text_in_paragraph.
replace_text_in_paragraph(runs, replacements) ==
    LET r == replace_loop(join(runs), FALSE, replacements, 1)
    IN  write_back(runs, r[1], r[2])

\* The document after replace_placeholders.
replace_placeholders(doc, replacements) ==
    [doc EXCEPT !.tables =
        [i \in 1..Len(doc.tables) |->
            replace_text_in_paragraph(doc.tables[i], replacements)]]


\* The template on disk: Document(template_path) parses it anew at every call.
Template ==
    [ tables |->
        << << <<"Name", ":", " ", "[", "Learner Name">>, <<"]">> >>,
           << <<"[", "ITC", "1", "]", "=", "[", "ICA", "1", "]">>,
              <<" ", "[", "ITC", "2", "]", "=", "[", "ICA", "2", "]">> >>,
           << <<"[", "First Submission", " ", EnDash, " ", "Deadline", "]",
                "[", "Unknown", "]">> >>,
           << <<"[", "RTC", "1", "]", "/">>,
              <<"[", "Learner Registration Number", "]">> >> >>,
      body |-> << << <<"[", "Assignment Title", "]">> >> >> ]

\* f"{name} {reg}.docx".strip()
filename_of(row) ==
    LET name == strip(or_empty(row_get_none(row, <<"Learner Name">>)))
        reg == strip(or_empty(row_get_none(row, <<"Learner Registration Number">>)))
    IN  strip(name \o <<" ">> \o reg \o <<".docx">>)

(***************************************************************************)
(* State                                                                   *)
(***************************************************************************)
VARIABLES
    \* generate_documents_from_csv and its worker pool
    rows,            \* list(csv.DictReader(f)): index -> row
    max_workers,     \* the size of the pool
    progress,        \* whether a progress callback was passed
    pc,              \* where generate_documents_from_csv is
    total_rows,      \* the pre-counted number of data rows
    future,          \* index -> state of the future submitted for the row
    result,          \* index -> what _process_single_row returned
    instances,       \* every Document object loaded so far, by any worker
    events,          \* the calls made to progress, in order
    generated_docs,  \* the list the function returns
    \* one call of process_criteria
    cpc, arg_targeted, arg_achieved, arg_max_criteria, returned,
    \* one call of replace_text_in_paragraph
    rpc,             \* where the call is
    from_row,        \* the row the replacement map was built from
    given,           \* the runs of the paragraph at the call
    paragraph,       \* the runs of the paragraph
    items,           \* replacements.items(), in the order of iteration
    pos,             \* the entry the loop is at
    text,            \* full_text
    changed,         \* modified
    inserted         \* the values put in place of a key so far

driver_vars ==
    <<rows, max_workers, progress, pc, total_rows, future, result, instances,
      events, generated_docs>>

criteria_vars == <<cpc, arg_targeted, arg_achieved, arg_max_criteria, returned>>

paragraph_vars == <<rpc, from_row, given, paragraph, items, pos, text, changed, inserted>>

vars == <<driver_vars, criteria_vars, paragraph_vars>>

DriverIdle ==
    /\ rows = <<>> /\ max_workers = 1 /\ progress = FALSE /\ pc = "idle"
    /\ total_rows = 0 /\ future = <<>> /\ result = <<>> /\ instances = <<>>
    /\ events = <<>> /\ generated_docs = <<>>

CriteriaIdle ==
    /\ cpc = "idle" /\ arg_targeted = <<>> /\ arg_achieved = <<>>
    /\ arg_max_criteria = 0 /\ returned = <<>>

ParagraphIdle ==
    /\ rpc = "idle" /\ from_row = <<>> /\ given = <<>> /\ paragraph = <<>>
    /\ items = <<>>
    /\ pos = 0 /\ text = <<>> /\ changed = FALSE /\ inserted = {}

(***************************************************************************)
(* Sample rows                                                             *)
(***************************************************************************)
DeadlineColumn == <<"First Submission", " ", "-", " ", "Deadline">>

RowAnn ==
    (<<"Learner Name">> :> <<"Ann">>)
    @@ (<<"Learner Registration Number">> :> <<"R1">>)
    @@ (InitialTargetedColumn :> <<"P1", ",", " ", "M1">>)
    @@ (InitialAchievedColumn :> <<"M1">>)
    @@ (ResubTargetedColumn :> <<"P1">>)
    @@ (ResubAchievedColumn :> <<>>)
    @@ (DeadlineColumn :> <<"2024", "-", "01", "-", "31">>)

RowBob ==
    (<<"Learner Name">> :> <<" ", "Bob", " ">>)
    @@ (<<"Learner Registration Number">> :> <<"R2">>)
    @@ (InitialTargetedColumn :> <<"D2">>)
    @@ (InitialAchievedColumn :> <<"D2">>)
    @@ (ResubTargetedColumn :> <<>>)
    @@ (ResubAchievedColumn :> <<>>)
    @@ (DeadlineColumn :> <<"May">>)

\* Blank name and registration number; the table has no deadline column and
\* no resubmission columns.
RowBlank ==
    (<<"Learner Name">> :> <<" ">>)
    @@ (<<"Learner Registration Number">> :> <<>>)
    @@ (InitialTargetedColumn :> <<"P3">>)
    @@ (InitialAchievedColumn :> <<"P3">>)

\* A short record: csv.DictReader fills the fields it lacks with None.
RowShort ==
    (<<"Learner Name">> :> <<"Cy">>)
    @@ (<<"Learner Registration Number">> :> <<"R3">>)
    @@ (DeadlineColumn :> None)
    @@ (InitialTargetedColumn :> None)
    @@ (InitialAchievedColumn :> None)
    @@ (ResubTargetedColumn :> None)
    @@ (ResubAchievedColumn :> None)

SampleRows == {RowAnn, RowBob, RowBlank, RowShort}

\* replace_all_placeholders is a function of the document and the row.  Its
\* values on the template and on the once-substituted templates, for the sample
\* rows it does not raise on, are evaluated once and looked up afterwards.
SubstitutableRows == { r \in SampleRows : ~criteria_read_raises(r) }

substituted_once ==
    { replace_placeholders(Template, replacement_map(r, FALSE)) :
        r \in SubstitutableRows }

substitution_table ==
    { <<d, r, rev, replace_placeholders(d, replacement_map(r, rev))>> :
        d \in {Template} \cup substituted_once,
        r \in SubstitutableRows, rev \in BOOLEAN }

\* The document after replace_all_placeholders, for a row it does not raise on.
replace_all_placeholders(doc, row, reversed) ==
    IF \E t \in substitution_table : t[1] = doc /\ t[2] = row /\ t[3] = reversed
    THEN (CHOOSE t \in substitution_table :
            t[1] = doc /\ t[2] = row /\ t[3] = reversed)[4]
    ELSE replace_placeholders(doc, replacement_map(row, reversed))

(***************************************************************************)
(* generate_documents_from_csv                                             *)
(***************************************************************************)
Indices == DOMAIN rows

\* max(0, sum(1 for _ in csv.reader(f)) - 1): the header is one record more.
count_total_rows(n) == IF (n + 1) - 1 > 0 THEN (n + 1) - 1 ELSE 0

\* progress(kind, payload), when a callback was passed.
notify(kind, payload) ==
    IF progress THEN Append(events, <<kind, payload>>) ELSE events

InitDriver ==
    /\ \E n \in 0..MaxRows : rows \in [0..(n - 1) -> SampleRows]
    /\ max_workers \in 1..MaxWorkers
    /\ progress \in BOOLEAN
    /\ pc = "start"
    /\ total_rows = 0
    /\ future = <<>> /\ result = <<>> /\ instances = <<>>
    /\ events = <<>> /\ generated_docs = <<>>

\* os.path.exists fails for the template or the table: FileNotFoundError,
\* before any row is read.
SetupFails ==
    /\ pc = "start"
    /\ pc' = "FileNotFoundError"
    /\ UNCHANGED <<rows, max_workers, progress, total_rows, future, result,
                   instances, events, generated_docs>>
    /\ UNCHANGED <<criteria_vars, paragraph_vars>>

\* From the pre-count to the submission of one future per row.
Start ==
    /\ pc = "start"
    /\ total_rows' = count_total_rows(Cardinality(Indices))
    /\ events' = IF progress
                 THEN Append(events, <<"start", [total_rows |-> total_rows']>>)
                 ELSE events
    /\ future' = [i \in Indices |-> "pending"]
    /\ result' = [i \in Indices |-> <<>>]
    /\ pc' = "collect"
    /\ UNCHANGED <<rows, max_workers, progress, instances, generated_docs>>
    /\ UNCHANGED <<criteria_vars, paragraph_vars>>

\* A free worker process takes the work item of row i.
WorkerStart(i) ==
    /\ pc = "collect"
    /\ future[i] = "pending"
    /\ Cardinality({j \in Indices : future[j] = "running"}) < max_workers
    /\ future' = [future EXCEPT ![i] = "running"]
    /\ UNCHANGED <<rows, max_workers, progress, pc, total_rows, result,
                   instances, events, generated_docs>>
    /\ UNCHANGED <<criteria_vars, paragraph_vars>>

\* doc = Document(template_path): a new Document object.
load_cached(insts) ==
    IF insts = <<>>
    THEN [insts |-> <<[doc |-> Template, substitutions |-> 0]>>, id |-> 1]
    ELSE [insts |-> insts, id |-> 1]

load_document(insts) ==
    [insts |-> Append(insts, [doc |-> Template, substitutions |-> 0]),
     id |-> Len(insts) + 1]

\* _process_single_row((i, rows[i], template_path)), run to its return in the
\* worker process: the Document objects afterwards and the returned tuple.
\* `load` is how Document(template_path) ends.
process_single_row(i, load, reversed) ==
    IF load = "IOError"
    THEN [insts |-> instances,
          ret |-> <<i, <<None, "Error processing row: IOError">>>>]
    ELSE IF load = "PackageNotFoundError"
    THEN [insts |-> instances,
          ret |-> <<i, <<None, "Unexpected error: PackageNotFoundError">>>>]
    ELSE LET l == load_document(instances)
         IN  IF criteria_read_raises(rows[i])
             THEN [insts |-> l.insts,
                   ret |-> <<i, <<None, "Unexpected error: AttributeError">>>>]
             ELSE LET doc == replace_all_placeholders(l.insts[l.id].doc,
                                                      rows[i], reversed)
                  IN  [insts |-> [l.insts EXCEPT ![l.id] =
                                    [doc |-> doc,
                                     substitutions |-> @.substitutions + 1]],
                       ret |-> <<i, <<filename_of(rows[i]), doc>>>>]

WorkerRun(i) ==
    /\ pc = "collect"
    /\ future[i] = "running"
    /\ \E load \in {"ok", "IOError", "PackageNotFoundError"}, reversed \in BOOLEAN :
         LET r == process_single_row(i, load, reversed)
         IN  /\ instances' = r.insts
             /\ result' = [result EXCEPT ![i] = r.ret]
    /\ future' = [future EXCEPT ![i] = "finished"]
    /\ UNCHANGED <<rows, max_workers, progress, pc, total_rows, events,
                   generated_docs>>
    /\ UNCHANGED <<criteria_vars, paragraph_vars>>

\* The worker process of row i dies: the pool is broken, and the future of
\* every row that has not finished holds BrokenProcessPool, which
\* future.result() raises.
WorkerDies(i) ==
    /\ pc = "collect"
    /\ future[i] = "running"
    /\ future' = [j \in Indices |->
                    IF future[j] \in {"pending", "running"}
                    THEN "raised" ELSE future[j]]
    /\ UNCHANGED <<rows, max_workers, progress, pc, total_rows, result,
                   instances, events, generated_docs>>
    /\ UNCHANGED <<criteria_vars, paragraph_vars>>

\* One turn of `for future in as_completed(future_to_index)`, for the future
\* of row i.
Collect_break(i) ==
    /\ pc = "collect"
    /\ future[i] \in {"finished", "raised"}
    /\ IF future[i] = "raised"
       THEN /\ events' = notify("row_error",
                                [index |-> i, error |-> "BrokenProcessPool"])
            /\ future' = [j \in Indices |-> "collected"]
            /\ UNCHANGED generated_docs
       ELSE IF result[i][2][1] = None
       THEN /\ events' = notify("row_error",
                                [index |-> result[i][1],
                                 error |-> result[i][2][2]])
            /\ future' = [j \in Indices |-> "collected"]
            /\ UNCHANGED generated_docs
       ELSE /\ generated_docs' = Append(generated_docs, result[i][2])
            /\ events' = notify("row_done",
                                [index |-> result[i][1],
                                 filename |-> result[i][2][1]])
            /\ future' = [future EXCEPT ![i] = "collected"]
    /\ UNCHANGED <<rows, max_workers, progress, pc, total_rows, result, instances>>
    /\ UNCHANGED <<criteria_vars, paragraph_vars>>

Collect(i) ==
    /\ pc = "collect"
    /\ future[i] \in {"finished", "raised"}
    /\ IF future[i] = "raised"
       THEN /\ events' = notify("row_error",
                                [index |-> i, error |-> "BrokenProcessPool"])
            /\ UNCHANGED generated_docs
       ELSE LET index == result[i][1]
                filename == result[i][2][1]
                doc_bytes == result[i][2][2]
            IN  IF filename = None
                THEN /\ events' = notify("row_error",
                                         [index |-> index, error |-> doc_bytes])
                     /\ UNCHANGED generated_docs
                ELSE /\ generated_docs' = Append(generated_docs,
                                                 <<filename, doc_bytes>>)
                     /\ events' = notify("row_done",
                                         [index |-> index, filename |-> filename])
    /\ future' = [future EXCEPT ![i] = "collected"]
    /\ UNCHANGED <<rows, max_workers, progress, pc, total_rows, result, instances>>
    /\ UNCHANGED <<criteria_vars, paragraph_vars>>

\* The pool is shut down, `complete` is reported and the list returned.
Complete ==
    /\ pc = "collect"
    /\ \A i \in Indices : future[i] = "collected"
    /\ events' = notify("complete",
                        [generated |-> Len(generated_docs),
                         total_rows |-> total_rows])
    /\ pc' = "done"
    /\ UNCHANGED <<rows, max_workers, progress, total_rows, future, result,
                   instances, generated_docs>>
    /\ UNCHANGED <<criteria_vars, paragraph_vars>>

Init == InitDriver /\ CriteriaIdle /\ ParagraphIdle

Next ==
    \/ SetupFails
    \/ Start
    \/ \E i \in Indices : WorkerStart(i)
    \/ \E i \in Indices : WorkerRun(i)
    \/ \E i \in Indices : WorkerDies(i)
    \/ \E i \in Indices : Collect(i)
    \/ Complete

Spec == Init /\ [][Next]_vars

(***************************************************************************)
(* Properties of generate_documents_from_csv (specification Spec)          *)
(***************************************************************************)
\* The positions of the row_done and row_error events of row i.
done_events(i) ==
    { p \in 1..Len(events) : events[p][1] = "row_done" /\ events[p][2].index = i }

error_events(i) ==
    { p \in 1..Len(events) : events[p][1] = "row_error" /\ events[p][2].index = i }

submitted == pc \in {"collect", "done"}

\* The worker of row i returned a document.
returned_document(i) ==
    /\ submitted
    /\ result[i] # <<>>
    /\ result[i][2][1] # None

\* The texts that make up a document: its letters.
letters_of(doc) ==
    UNION { UNION { { doc.tables[p][r][c] : c \in 1..Len(doc.tables[p][r]) } :
                      r \in 1..Len(doc.tables[p]) } :
              p \in 1..Len(doc.tables) }

letters_of_row(row) ==
    UNION { { row[c][k] : k \in 1..Len(row[c]) } : c \in DOMAIN row }

\* C1: with a progress callback, no row is reported twice; when the function
\* has returned, every row has exactly one of row_done (its document is in the
\* returned list, under the name reported) and row_error (with its own index
\* and an error text), whatever happened to the other rows; and until then
\* the function can always take a step, so no failure stops the batch.
C1_EveryRowReportedOnce ==
    /\ progress =>
         \A i \in Indices :
           Cardinality(done_events(i)) + Cardinality(error_events(i)) <= 1
    /\ (progress /\ pc = "done") =>
         /\ \A i \in Indices :
              /\ Cardinality(done_events(i)) + Cardinality(error_events(i)) = 1
              /\ \A p \in done_events(i) :
                   /\ returned_document(i)
                   /\ \E g \in 1..Len(generated_docs) :
                        generated_docs[g] = result[i][2]
                   /\ events[p][2].filename = result[i][2][1]
              /\ \A p \in error_events(i) : events[p][2].error \in
                   { "Error processing row: IOError",
                     "Unexpected error: PackageNotFoundError",
                     "Unexpected error: AttributeError",
                     "BrokenProcessPool" }
         /\ Len(generated_docs) =
              Cardinality({ i \in Indices : done_events(i) # {} })
    /\ pc \in {"start", "collect"} => ENABLED Next

\* C1's case: a row failed, and a row collected after it has its document.
C1_Witness ==
    /\ progress /\ pc = "done"
    /\ \E i, j \in Indices :
         \E p \in error_events(i), q \in done_events(j) : p < q

\* C2: no two documents of the returned list share a filename.
C2_DistinctFilenames ==
    pc = "done" =>
      \A a, b \in 1..Len(generated_docs) :
        a # b => generated_docs[a][1] # generated_docs[b][1]

\* Learner Name and Learner Registration Number both empty or blank.
blank_identity(row) ==
    /\ strip(or_empty(row_get_none(row, <<"Learner Name">>))) = EmptyStr
    /\ strip(or_empty(row_get_none(row, <<"Learner Registration Number">>)))
         = EmptyStr

\* C3: a row with a blank name and registration number whose worker returned
\* a document has exactly one row_done, no row_error, and a filename that is
\* not the one the blank strings give.
C3_BlankRowFallbackName ==
    (progress /\ pc = "done") =>
      \A i \in Indices :
        (blank_identity(rows[i]) /\ returned_document(i)) =>
          /\ Cardinality(done_events(i)) = 1
          /\ error_events(i) = {}
          /\ result[i][2][1] # strip(<<" ", ".docx">>)

\* The columns replace_all_placeholders reads.
read_columns ==
    CriteriaColumns
    \cup { column_name(DECLARED_PLACEHOLDERS[k]) :
             k \in 1..Len(DECLARED_PLACEHOLDERS) }

\* A column the builder reads is absent from the row or holds None.
missing_columns(row) ==
    { c \in read_columns : c \notin DOMAIN row \/ row[c] = None }

\* C4: a row with a missing or None column is never reported with the error
\* of the builder, and in the document its worker returns no token of a
\* missing declared column is left.
C4_MissingFieldIsEmpty ==
    submitted =>
      \A i \in Indices :
        (missing_columns(rows[i]) # {} /\ result[i] # <<>>) =>
          /\ result[i][2][1] = None =>
               result[i][2][2] # "Unexpected error: AttributeError"
          /\ result[i][2][1] # None =>
               \A k \in 1..Len(DECLARED_PLACEHOLDERS) :
                 column_name(DECLARED_PLACEHOLDERS[k]) \in missing_columns(rows[i]) =>
                   \A v \in generate_placeholder_variants(DECLARED_PLACEHOLDERS[k]) :
                     \A p \in 1..Len(result[i][2][2].tables) :
                       ~str_in(v, join(result[i][2][2].tables[p]))

\* C6: no Document object is substituted twice, and the document returned for
\* row i is the template substituted with row i: every letter of it is a
\* letter of the template, of row i, or a Y/N mark, whatever the other rows,
\* the number of workers and the order of the steps.
C6_NoCrossContamination ==
    /\ \A k \in 1..Len(instances) : instances[k].substitutions <= 1
    /\ submitted =>
         \A i \in Indices :
           returned_document(i) =>
             /\ result[i][2][2] = replace_all_placeholders(Template, rows[i], FALSE)
             /\ letters_of(result[i][2][2]) \subseteq
                  letters_of(Template) \cup letters_of_row(rows[i]) \cup {"Y", "N"}
    /\ \A g \in 1..Len(generated_docs) :
         \E i \in Indices :
           returned_document(i) /\ generated_docs[g] = result[i][2]

\* C6's case: two rows with different values, two workers, and the documents
\* collected in the order opposite to the rows'.
C6_Witness ==
    /\ pc = "done" /\ max_workers >= 2
    /\ \E i, j \in Indices :
         /\ i < j
         /\ rows[i] = RowAnn /\ rows[j] = RowBob
         /\ returned_document(i) /\ returned_document(j)
         /\ Len(generated_docs) = 2
         /\ generated_docs[1] = result[j][2] /\ generated_docs[2] = result[i][2]
         /\ generated_docs[1] # generated_docs[2]

\* C9: the first event is start, the last is complete, and every row_done or
\* row_error of a row comes after a row_start with that row's index and row.
C9_EventOrder ==
    (progress /\ pc = "done") =>
      /\ events[1][1] = "start"
      /\ events[Len(events)][1] = "complete"
      /\ \A p \in 1..Len(events) :
           events[p][1] \in {"row_done", "row_error"} =>
             \E q \in 1..(p - 1) :
               /\ events[q][1] = "row_start"
               /\ events[q][2].index = events[p][2].index
               /\ events[q][2].row = rows[events[p][2].index]

(***************************************************************************)
(* One call of process_criteria (specification SpecCriteria)               *)
(***************************************************************************)
\* The letters of the argument strings: two code letters, the comma, the blank.
CriteriaLetters == {"A", "B", ",", " "}

strings_upto(n) == UNION { [1..k -> CriteriaLetters] : k \in 0..n }

InitCriteria ==
    /\ cpc = "call"
    /\ arg_targeted \in strings_upto(MaxTargetedLen)
    /\ arg_achieved \in strings_upto(MaxAchievedLen)
    /\ arg_max_criteria \in (0 - MaxCriteriaArg)..MaxCriteriaArg
    /\ returned = <<>>
    /\ DriverIdle /\ ParagraphIdle

\* The call runs to its return statement.
ProcessCriteria ==
    /\ cpc = "call"
    /\ returned' = process_criteria(arg_targeted, arg_achieved, arg_max_criteria)
    /\ cpc' = "return"
    /\ UNCHANGED <<arg_targeted, arg_achieved, arg_max_criteria>>
    /\ UNCHANGED <<driver_vars, paragraph_vars>>

NextCriteria == ProcessCriteria

SpecCriteria == InitCriteria /\ [][NextCriteria]_vars

\* The reference tokenization, by positions: the pieces of s between two
\* neighbouring separators (or ends), cut down to the span from their first
\* to their last non-blank letter, the all-blank pieces left out.
separators(s) == {0, Len(s) + 1} \cup { i \in 1..Len(s) : s[i] = "," }

solid(s, p) ==
    LET q == CHOOSE q \in separators(s) :
               q > p /\ \A m \in separators(s) : m > p => q <= m
    IN  { i \in (p + 1)..(q - 1) : s[i] \notin Whitespace }

piece_starts(s) == { p \in separators(s) : p <= Len(s) /\ solid(s, p) # {} }

reference_list(s) ==
    [k \in 1..Cardinality(piece_starts(s)) |->
        LET p == CHOOSE p \in piece_starts(s) :
                   Cardinality({ m \in piece_starts(s) : m <= p }) = k
            lo == CHOOSE i \in solid(s, p) : \A j \in solid(s, p) : i <= j
            hi == CHOOSE i \in solid(s, p) : \A j \in solid(s, p) : j <= i
        IN  SubSeq(s, lo, hi)]

\* C7 as stated: both lists have exactly max_criteria entries, for every
\* integer max_criteria.
C7_LengthIsMaxCriteria ==
    cpc = "return" =>
      /\ Len(returned[1]) = arg_max_criteria
      /\ Len(returned[2]) = arg_max_criteria

\* C7, amended: the two lists have the same length for every integer
\* max_criteria, and that length is exactly max_criteria when
\* max_criteria >= 0.
C7_LengthIsMaxCriteriaNonNegative ==
    cpc = "return" =>
      /\ Len(returned[1]) = Len(returned[2])
      /\ arg_max_criteria >= 0 =>
           /\ Len(returned[1]) = arg_max_criteria
           /\ Len(returned[2]) = arg_max_criteria

\* C7's case: more targeted entries than max_criteria, so the lists are cut.
C7_Witness ==
    /\ cpc = "return"
    /\ arg_max_criteria > 0
    /\ Len(reference_list(arg_targeted)) > arg_max_criteria
    /\ Len(returned[1]) = arg_max_criteria

\* C8: at every position below max_criteria the first list holds the
\* targeted entry of that position, or '' past the last one, and the second
\* holds Y when that entry equals an achieved entry, N when it equals none,
\* and '' past the last targeted entry.
C8_MatchesReference ==
    cpc = "return" =>
      LET T == reference_list(arg_targeted)
          A == reference_list(arg_achieved)
      IN  \A i \in 1..arg_max_criteria :
            /\ i <= Len(returned[1]) /\ i <= Len(returned[2])
            /\ returned[1][i] = (IF i <= Len(T) THEN T[i] ELSE EmptyStr)
            /\ returned[2][i] =
                 (IF i > Len(T) THEN EmptyStr
                  ELSE IF \E a \in 1..Len(A) : A[a] = T[i] THEN <<"Y">>
                  ELSE <<"N">>)

\* C8's case: a targeted entry that is only a part of an achieved entry is
\* marked N.
C8_Witness ==
    /\ cpc = "return"
    /\ \E i \in 1..arg_max_criteria :
         /\ i <= Len(reference_list(arg_targeted))
         /\ returned[2][i] = <<"N">>
         /\ \E a \in 1..Len(reference_list(arg_achieved)) :
              /\ reference_list(arg_achieved)[a] # returned[1][i]
              /\ str_in(returned[1][i], reference_list(arg_achieved)[a])

(***************************************************************************)
(* One call of replace_text_in_paragraph (specification SpecParagraph)     *)
(***************************************************************************)
\* A learner name that is the text of another token.
RowNested ==
    (<<"Learner Name">> :> <<"[", "Assignment Title", "]">>)
    @@ (<<"Assignment Title">> :> <<"Essay">>)
    @@ (<<"Learner Registration Number">> :> <<"R4">>)

\* A deadline that holds the en dash spelling of its own token.
RowDash ==
    (<<"Learner Name">> :> <<"Di">>)
    @@ (DeadlineColumn :>
          <<"due", "[", "First Submission", " ", EnDash, " ", "Deadline", "]">>)

ParagraphRows == {RowAnn, RowNested, RowDash}

SampleParagraphs ==
    { << <<"Name", ":", " ", "[", "Learner Name">>, <<"]">> >>,
      << <<"[", "First Submission", " ", "-", " ", "Deadline", "]">> >>,
      << <<"[", "ITC", "1", "]">>, <<"[", "Unknown", "]">>, <<"[", "ICA", "1", "]">> >>,
      << <<"plain">>, <<" ", "text">> >>,
      << >> }

\* The order in which replacements.items() yields the entries: the insertion
\* order of the dict, and the opposite order for comparison.
IterationOrders == {"insertion", "reverse"}

InitParagraph ==
    /\ rpc = "join"
    /\ from_row \in ParagraphRows
    /\ given \in SampleParagraphs
    /\ paragraph = given
    /\ \E reversed \in BOOLEAN, order \in IterationOrders :
         items = IF order = "insertion"
                 THEN replacement_map(from_row, reversed)
                 ELSE reverse(replacement_map(from_row, reversed))
    /\ pos = 0 /\ text = <<>> /\ changed = FALSE /\ inserted = {}
    /\ DriverIdle /\ CriteriaIdle

\* full_text = ''.join(run.text for run in paragraph.runs); modified = False
JoinRuns ==
    /\ rpc = "join"
    /\ text' = join(paragraph)
    /\ changed' = FALSE
    /\ pos' = 1
    /\ rpc' = "loop"
    /\ UNCHANGED <<from_row, given, paragraph, items, inserted>>
    /\ UNCHANGED <<driver_vars, criteria_vars>>

\* One turn of `for placeholder, replacement in replacements.items()`.
ReplaceEntry ==
    /\ rpc = "loop"
    /\ pos <= Len(items)
    /\ LET r == replace_entry(text, changed, items[pos][1], items[pos][2])
       IN  /\ text' = r[1]
           /\ changed' = r[2]
    /\ inserted' = IF str_in(items[pos][1], text)
                   THEN inserted \cup {items[pos][2]}
                   ELSE inserted
    /\ pos' = pos + 1
    /\ UNCHANGED <<rpc, from_row, given, paragraph, items>>
    /\ UNCHANGED <<driver_vars, criteria_vars>>

\* `if modified:` and what follows, after the last entry.
WriteBack ==
    /\ rpc = "loop"
    /\ pos > Len(items)
    /\ paragraph' = write_back(paragraph, text, changed)
    /\ rpc' = "done"
    /\ UNCHANGED <<from_row, given, items, pos, text, changed, inserted>>
    /\ UNCHANGED <<driver_vars, criteria_vars>>

NextParagraph ==
    \/ JoinRuns
    \/ ReplaceEntry
    \/ WriteBack

SpecParagraph == InitParagraph /\ [][NextParagraph]_vars

\* C5: every value that the loop put in place of a key is still in the final
\* text of the paragraph, as it was inserted.
C5_InsertedTextIsFinal ==
    rpc = "done" => \A v \in inserted : str_in(v, join(paragraph))

\* C10: the final text is the one the insertion order of the map gives,
\* whatever order the entries were processed in.
C10_OrderIndependent ==
    rpc = "done" =>
      join(paragraph) =
        replace_loop(join(given), FALSE, replacement_map(from_row, FALSE), 1)[1]

(***************************************************************************)
(* replace_text_in_paragraph on any paragraph and map (specification       *)
(* SpecRuns)                                                               *)
(***************************************************************************)
\* The texts a run may hold, the keys and the values a map may hold.  The
\* key "ab" lies across the boundary of the runs "a", "b"; the empty key
\* occurs in every text, the empty one included.
RunTexts == {<<>>, <<"a">>, <<"b">>, <<"a", "b">>}

GivenKeys == {<<>>, <<"b">>, <<"a", "b">>, <<"b", "a">>}

GivenValues == {<<>>, <<"b">>, <<"a", "a">>}

\* Paragraphs of zero to MaxRuns runs.
GivenParagraphs == UNION { [1..n -> RunTexts] : n \in 0..MaxRuns }

\* Dicts of zero to MaxEntries entries, as the list items() yields: the keys
\* of a dict are distinct.
GivenMaps ==
    UNION { { d \in [1..n -> GivenKeys \X GivenValues] :
                \A i, j \in 1..n : i # j => d[i][1] # d[j][1] } :
            n \in 0..MaxEntries }

\* The map is passed in as it is, no row stands behind it.
InitRuns ==
    /\ rpc = "join"
    /\ from_row = <<>>
    /\ given \in GivenParagraphs
    /\ paragraph = given
    /\ items \in GivenMaps
    /\ pos = 0 /\ text = <<>> /\ changed = FALSE /\ inserted = {}
    /\ DriverIdle /\ CriteriaIdle

SpecRuns == InitRuns /\ [][NextParagraph]_vars

\* Some key of the map occurs in the concatenation of the given runs.
key_occurs == \E e \in 1..Len(items) : str_in(items[e][1], join(given))

\* The first place where k occurs in s (k occurs in s).
first_occurrence(k, s) ==
    CHOOSE p \in 1..(Len(s) + 1) :
        /\ occurs_at(s, k, p)
        /\ \A q \in 1..(p - 1) : ~occurs_at(s, k, q)

\* C11: after the call, if no key occurs in the concatenation of the given
\* runs, every run is as it was; if a key occurs, the runs are as many as
\* before (one, if there were none), the first holds the whole text the loop
\* produced from the concatenation, every other run is empty, and so the
\* concatenation of the runs is that text.  With a map of one entry the text
\* is the concatenation up to the first occurrence of the key, wherever the
\* run boundaries fall, followed by the value.
C11_RunsAfterReplacement ==
    rpc = "done" =>
      LET full     == join(given)
          replaced == replace_loop(full, FALSE, items, 1)[1]
      IN  /\ ~key_occurs => paragraph = given
          /\ key_occurs =>
               /\ Len(paragraph) = (IF given = <<>> THEN 1 ELSE Len(given))
               /\ paragraph[1] = replaced
               /\ \A i \in 2..Len(paragraph) : paragraph[i] = EmptyStr
               /\ join(paragraph) = replaced
          /\ (key_occurs /\ Len(items) = 1) =>
               LET p    == first_occurrence(items[1][1], full)
                   head == SubSeq(full, 1, p - 1) \o items[1][2]
               IN  /\ Len(join(paragraph)) >= Len(head)
                   /\ SubSeq(join(paragraph), 1, Len(head)) = head

\* A key that lies in no single run but across the two runs of the paragraph
\* was found, and the runs were rewritten.
C11_Witness ==
    /\ rpc = "done"
    /\ Len(given) = 2
    /\ changed
    /\ paragraph # given
    /\ \E e \in 1..Len(items) :
         /\ items[e][1] # <<>>
         /\ str_in(items[e][1], join(given))
         /\ ~str_in(items[e][1], given[1])
         /\ ~str_in(items[e][1], given[2])
    /\ \A e \in 1..Len(items) :
         \A r \in 1..2 : ~str_in(items[e][1], given[r])

\* A paragraph without runs got a run: the map holds the empty key.
RunCreated ==
    /\ rpc = "done"
    /\ given = <<>>
    /\ Len(paragraph) = 1
    /\ paragraph[1] # <<>>

====
